---- MODULE Spec2Model ----
(***************************************************************************)
(* Model of the two key provisioners of node-server-key-generator:         *)
(*   generate-tls-certs.js  (CA + service certificate through openssl)      *)
(*   generate-jwk.js        (ES256 JWK pair through jose)                    *)
(* Text is modelled as a sequence of chunks (strings); the chunk NL is a    *)
(* line break.  Directories are sequences of path segments.                 *)
(* The scripts are run one after the other, up to MaxRuns times, in any     *)
(* order, against one file system and one environment; every external      *)
(* call (openssl, fs, jose) may succeed or fail.                            *)
(***************************************************************************)
EXTENDS Integers, Sequences, FiniteSets, TLC

VARIABLES
  fs,          \* file system: [dir, name] path |-> file record
  dirs,        \* set of existing directories
  run,         \* number of provisioner processes started so far
  prog,        \* process being run: "none", "tls", "jwk"
  pc,          \* position of the running process
  cwd,         \* working directory of the process
  startDir,    \* working directory the process was launched in
  env,         \* process environment (KEY_DIR, CN, SAN_DNS, SAN_IP)
  sys,         \* where openssl is: usrBin, usrLocalBin, onPath
  originalDir, \* generateTLSCertificates: const originalDir
  passphrase,  \* generateTLSCertificates: const passphrase
  keyPair,     \* generateJWKKeyPair: { publicKey, privateKey }
  log,         \* lines written to console.error by the process
  exitCode,    \* -1 while running, else the exit code of the process
  executed,    \* steps the process has attempted, in order
  failedAt,    \* the step that failed, "none" if none
  reads,       \* input files read by the successful openssl commands
  k1, k2,      \* generateKid: two JWKs given to generateKid
  kid1, kid2,  \* generateKid: their key ids
  kpc          \* generateKid harness position

vars == <<fs, dirs, run, prog, pc, cwd, startDir, env, sys, originalDir,
          passphrase, keyPair, log, exitCode, executed, failedAt, reads,
          k1, k2, kid1, kid2, kpc>>

procVars == <<fs, dirs, run, prog, pc, cwd, startDir, env, sys, originalDir,
              passphrase, keyPair, log, exitCode, executed, failedAt, reads>>

kidVars == <<k1, k2, kid1, kid2, kpc>>

-----------------------------------------------------------------------------
(* Bounds *)

MaxRuns == 2

MaxLen == 1

-----------------------------------------------------------------------------
(* Program constants *)

ALGORITHM == "ES256"

KEY_USE == "sig"

CA_KEY_SIZE == 4096

SERVICE_KEY_SIZE == 2048

CA_VALIDITY_DAYS == 3650

SERVICE_VALIDITY_DAYS == 825

NL == "\n"

\* __dirname: the directory holding both scripts
ScriptDir == <<"app">>

\* join(__dirname, 'keys') of generate-jwk.js
KEYS_DIR == ScriptDir \o <<"keys">>

JWKS_NAME == "jwks.json"

PRIVATE_KEY_NAME == "jwks-private-key.pem"

JWKS_PATH == [dir |-> KEYS_DIR, name |-> JWKS_NAME]

PRIVATE_KEY_PATH == [dir |-> KEYS_DIR, name |-> PRIVATE_KEY_NAME]

-----------------------------------------------------------------------------
(* Environment *)

Unset == [set |-> FALSE, val |-> << >>]

EnvStr(s) == [set |-> TRUE, val |-> s]

\* process.env.X || def : undefined and the empty string both give def
OrDefault(v, def) == IF v.set /\ v.val # << >> THEN v.val ELSE def

\* a KEY_DIR value: relative or absolute sequence of segments
RelDir(segs) == [set |-> TRUE, val |-> segs, abs |-> FALSE]

AbsDir(segs) == [set |-> TRUE, val |-> segs, abs |-> TRUE]

UnsetDir == [set |-> FALSE, val |-> << >>, abs |-> FALSE]

MkEnv(keyDir, cn, sanDns, sanIp) ==
  [KEY_DIR |-> keyDir, CN |-> cn, SAN_DNS |-> sanDns, SAN_IP |-> sanIp]

\* the environments the provisioners are run in
EnvChoices ==
  { MkEnv(UnsetDir, Unset, Unset, Unset),
    MkEnv(RelDir(<< >>), EnvStr(<< >>), EnvStr(<< >>), EnvStr(<< >>)),
    MkEnv(RelDir(<<"out">>), EnvStr(<<"svc.internal">>), EnvStr(<<"svc.local">>),
          EnvStr(<<"10.0.0.5">>)),
    MkEnv(AbsDir(<<"srv", "tls">>), EnvStr(<<"localhost">>), Unset,
          EnvStr(<<"10.0.0.5">>)),
    MkEnv(RelDir(<<"out">>), EnvStr(<<"svc", NL, "DNS.3 = evil">>), Unset, Unset),
    MkEnv(UnsetDir, Unset, EnvStr(<<"svc.local">>), Unset) }

\* where the openssl executable is installed and whether PATH resolves it:
\* nowhere; in /usr/bin and on PATH; elsewhere on PATH; in /usr/bin or
\* /usr/local/bin but not resolvable through PATH
SysChoices ==
  { [usrBin |-> FALSE, usrLocalBin |-> FALSE, onPath |-> FALSE],
    [usrBin |-> TRUE, usrLocalBin |-> FALSE, onPath |-> TRUE],
    [usrBin |-> FALSE, usrLocalBin |-> FALSE, onPath |-> TRUE],
    [usrBin |-> TRUE, usrLocalBin |-> FALSE, onPath |-> FALSE],
    [usrBin |-> FALSE, usrLocalBin |-> TRUE, onPath |-> FALSE] }

StartDirs == {ScriptDir, <<"home">>}

\* const KEY_DIR = process.env.KEY_DIR || 'keys'  (as a relative/absolute path)
KEY_DIR ==
  IF env.KEY_DIR.set /\ (env.KEY_DIR.abs \/ env.KEY_DIR.val # << >>)
  THEN [abs |-> env.KEY_DIR.abs, val |-> env.KEY_DIR.val]
  ELSE [abs |-> FALSE, val |-> <<"keys">>]

CN == OrDefault(env.CN, <<"internal-service">>)

SAN_DNS == OrDefault(env.SAN_DNS, <<"localhost">>)

SAN_IP == OrDefault(env.SAN_IP, <<"127.0.0.1">>)

\* path.resolve(base, p)
resolve(base, p) == IF p.abs THEN p.val ELSE base \o p.val

\* const keyDirPath = resolve(__dirname, KEY_DIR)
keyDirPath == resolve(ScriptDir, KEY_DIR)

-----------------------------------------------------------------------------
(* File system helpers *)

Path(d, n) == [dir |-> d, name |-> n]

Exists(p) == p \in DOMAIN fs

\* a file holding all of what was written to it
Complete(p) == Exists(p) /\ fs[p].complete

File(kind, data, complete) ==
  [kind |-> kind, run |-> run, complete |-> complete, data |-> data]

WriteTo(f, p, c) == [q \in (DOMAIN f) \cup {p} |-> IF q = p THEN c ELSE f[q]]

\* all prefixes of a directory path (mkdir -p creates each of them)
Prefixes(d) == {SubSeq(d, 1, n) : n \in 0..Len(d)}

-----------------------------------------------------------------------------
(* Text *)

RECURSIVE SplitFrom(_, _, _)
\* the lines of text t from chunk i on, cur being the line read so far
SplitFrom(t, i, cur) ==
  IF i > Len(t) THEN <<cur>>
  ELSE IF t[i] = NL THEN <<cur>> \o SplitFrom(t, i + 1, << >>)
  ELSE SplitFrom(t, i + 1, Append(cur, t[i]))

\* the lines of a text
Lines(t) == SplitFrom(t, 1, << >>)

IsSectionHeader(line) == Len(line) = 1 /\ line[1] \in {"[req]", "[req_distinguished_name]", "[v3_req]", "[alt_names]"}

RECURSIVE SectionFrom(_, _)
\* the non-empty lines from line i up to the next section header
SectionFrom(ls, i) ==
  IF i > Len(ls) \/ IsSectionHeader(ls[i]) THEN << >>
  ELSE IF ls[i] = << >> THEN SectionFrom(ls, i + 1)
  ELSE <<ls[i]>> \o SectionFrom(ls, i + 1)

\* the entries of the section named by header among the lines ls
Section(ls, header) ==
  LET at == {i \in 1..Len(ls) : ls[i] = <<header>>}
  IN IF at = {} THEN << >>
     ELSE SectionFrom(ls, (CHOOSE i \in at : \A j \in at : i <= j) + 1)

\* the subject-alternative-name list openssl takes from a configuration text
\* with -extensions v3_req: subjectAltName = @alt_names of [v3_req]
AltNames(t) ==
  LET ls == Lines(t)
      ext == Section(ls, "[v3_req]")
  IN IF \E i \in 1..Len(ext) : ext[i] = <<"subjectAltName = @alt_names">>
     THEN Section(ls, "[alt_names]")
     ELSE << >>

RECURSIVE TrimLeft(_)
TrimLeft(t) == IF t # << >> /\ t[1] \in {NL, " "} THEN TrimLeft(Tail(t)) ELSE t

RECURSIVE TrimRight(_)
TrimRight(t) ==
  IF t # << >> /\ t[Len(t)] \in {NL, " "} THEN TrimRight(SubSeq(t, 1, Len(t) - 1)) ELSE t

\* String.prototype.trim
Trim(t) == TrimRight(TrimLeft(t))

\* fault variant: the two DNS entries are written in the other order
generateOpenSSLConfigSwapped ==
  <<"[req]", NL,
    "distinguished_name = req_distinguished_name", NL,
    "x509_extensions = v3_req", NL,
    "prompt = no", NL,
    NL,
    "[req_distinguished_name]", NL,
    "CN = ">> \o CN \o <<NL,
    NL,
    "[v3_req]", NL,
    "basicConstraints = CA:FALSE", NL,
    "keyUsage = digitalSignature, keyEncipherment", NL,
    "extendedKeyUsage = serverAuth, clientAuth", NL,
    "subjectAltName = @alt_names", NL,
    NL,
    "[alt_names]", NL,
    "DNS.1 = ">> \o SAN_DNS \o <<NL,
    "DNS.2 = ">> \o CN \o <<NL,
    "IP.1 = ">> \o SAN_IP \o <<NL>>

\* generateOpenSSLConfig(): the template with CN, SAN_DNS and SAN_IP substituted
generateOpenSSLConfig ==
  <<"[req]", NL,
    "distinguished_name = req_distinguished_name", NL,
    "x509_extensions = v3_req", NL,
    "prompt = no", NL,
    NL,
    "[req_distinguished_name]", NL,
    "CN = ">> \o CN \o <<NL,
    NL,
    "[v3_req]", NL,
    "basicConstraints = CA:FALSE", NL,
    "keyUsage = digitalSignature, keyEncipherment", NL,
    "extendedKeyUsage = serverAuth, clientAuth", NL,
    "subjectAltName = @alt_names", NL,
    NL,
    "[alt_names]", NL,
    "DNS.1 = ">> \o CN \o <<NL,
    "DNS.2 = ">> \o SAN_DNS \o <<NL,
    "IP.1 = ">> \o SAN_IP \o <<NL>>

-----------------------------------------------------------------------------
(* Logging and errors *)

LogLine(msg, description, cause) ==
  [msg |-> msg, description |-> description, cause |-> cause]

\* error.message of a failed execSync
CommandFailed(step) == [type |-> "Command failed", subject |-> step]

\* error.message of a failed fs or process call
SysCallFailed(call, subject) == [type |-> call, subject |-> subject]

NoCause == [type |-> "", subject |-> ""]

\* fault variant: the catch block of executeCommand logs but does not rethrow
executeCommandNoRethrow(ok, description, cause) ==
  IF ok THEN [thrown |-> FALSE, logs |-> << >>]
  ELSE [thrown |-> FALSE, logs |-> <<LogLine("Failed to", description, cause)>>]

\* executeCommand(command, description): the result of running a command that
\* succeeds (ok) or fails with error.message cause
executeCommand(ok, description, cause) ==
  IF ok THEN [thrown |-> FALSE, logs |-> << >>]
  ELSE [thrown |-> TRUE, logs |-> <<LogLine("Failed to", description, cause)>>]

\* a bare execSync / fs call: throws without logging
bareCall(ok) == [thrown |-> ~ok, logs |-> << >>]

-----------------------------------------------------------------------------
(* generate-tls-certs.js *)

\* fault variant: the service key is generated before the passphrase is saved
TLSOrderKeyFirst ==
  <<"mkdir", "chdir", "cakey", "cacert", "genpass", "svckey", "writepass",
    "writecnf", "csr", "sign", "restore">>

\* the statements of generateTLSCertificates in program order
TLSOrder ==
  <<"mkdir", "chdir", "cakey", "cacert", "genpass", "writepass", "svckey",
    "writecnf", "csr", "sign", "restore">>

IndexOf(step) == CHOOSE i \in 1..Len(TLSOrder) : TLSOrder[i] = step

\* the statement control reaches after step completes without throwing
After(step) ==
  IF IndexOf(step) = Len(TLSOrder) THEN "end" ELSE TLSOrder[IndexOf(step) + 1]

\* the description handed to executeCommand by each command step
Description(step) ==
  CASE step = "cakey"  -> "generate CA private key"
    [] step = "cacert" -> "generate CA certificate"
    [] step = "svckey" -> "generate encrypted service private key"
    [] step = "csr"    -> "create certificate signing request"
    [] step = "sign"   -> "sign service certificate"
    [] OTHER           -> ""

CA_KEY == "tls-ca-key.pem"

CA_CERT == "tls-ca-cert.pem"

CA_SERIAL == "tls-ca-cert.srl"

PASS_FILE == "tls-shared-key-passphrase.txt"

SVC_KEY == "tls-shared-key.pem"

CNF == "openssl.cnf"

CSR == "tls-shared.csr"

SVC_CERT == "tls-shared-cert.pem"

\* the files each openssl command reads from the working directory
Inputs(step) ==
  CASE step = "cacert" -> {CA_KEY}
    [] step = "csr"    -> {SVC_KEY, CNF}
    [] step = "sign"   -> {CSR, CA_CERT, CA_KEY, CNF}
    [] OTHER           -> {}

Here(name) == Path(cwd, name)

\* the outputs of `openssl rand -base64 16` (with the trailing line break)
RandOutputs == {<<"cGFzc0E=", NL>>, <<"cGFzc0I=", NL>>}

\* the files a command step writes when it succeeds
Outputs(step) ==
  CASE step = "cakey" ->
         (CA_KEY :> File("rsakey", [key |-> <<"ca", run>>, bits |-> CA_KEY_SIZE,
                                    enc |-> "none", pass |-> << >>], TRUE))
    [] step = "cacert" ->
         (CA_CERT :> File("cert", [key |-> fs[Here(CA_KEY)].data.key,
                                   issuer |-> fs[Here(CA_KEY)].data.key,
                                   subject |-> <<"internal-ca">>, san |-> << >>,
                                   days |-> CA_VALIDITY_DAYS], TRUE))
    [] step = "svckey" ->
         (SVC_KEY :> File("rsakey", [key |-> <<"svc", run>>, bits |-> SERVICE_KEY_SIZE,
                                     enc |-> "aes256", pass |-> passphrase], TRUE))
    [] step = "csr" ->
         (CSR :> File("csr", [key |-> fs[Here(SVC_KEY)].data.key, subject |-> CN], TRUE))
    [] step = "sign" ->
         (SVC_CERT :> File("cert", [key |-> fs[Here(CSR)].data.key,
                                    issuer |-> fs[Here(CA_KEY)].data.key,
                                    subject |-> fs[Here(CSR)].data.subject,
                                    san |-> AltNames(fs[Here(CNF)].data.text),
                                    days |-> SERVICE_VALIDITY_DAYS], TRUE))
         @@ (CA_SERIAL :> File("srl", [serial |-> run], TRUE))

\* openssl can do what the command asks: it is found by the shell, the files
\* it reads are there and whole, and the keys it is given fit
CanSucceed(step) ==
  /\ sys.onPath
  /\ \A n \in Inputs(step) : Complete(Here(n))
  /\ step = "svckey" => passphrase # << >>
  /\ step = "csr" =>
        /\ fs[Here(SVC_KEY)].kind = "rsakey"
        /\ fs[Here(SVC_KEY)].data.enc = "aes256" => fs[Here(SVC_KEY)].data.pass = passphrase
  /\ step = "sign" => fs[Here(CA_CERT)].data.key = fs[Here(CA_KEY)].data.key

\* fs after the files of outs are written in directory d
WriteAll(d, outs) ==
  [q \in (DOMAIN fs) \cup {Path(d, n) : n \in DOMAIN outs} |->
     IF q.dir = d /\ q.name \in DOMAIN outs THEN outs[q.name] ELSE fs[q]]

\* how a statement of the try block ends: an exception reaches
\* catch (error) { console.error(...); process.exit(1) }, otherwise control
\* moves on to the next statement, and past the last one the process ends
Finish(step, ok, res, cause, errorText) ==
  /\ executed' = Append(executed, step)
  /\ failedAt' = IF ok THEN failedAt ELSE step
  /\ IF res.thrown
     THEN /\ log' = log \o res.logs \o <<LogLine(errorText, "", cause)>>
          /\ exitCode' = 1
          /\ pc' = "exited"
     ELSE /\ log' = log \o res.logs
          /\ exitCode' = IF After(step) = "end" THEN 0 ELSE exitCode
          /\ pc' = IF After(step) = "end" THEN "exited" ELSE After(step)

TLS_ERROR == "Error generating TLS certificates"

NOT_FOUND == "OpenSSL not found. Please install OpenSSL and try again."

\* a process may be launched when none is running
Idle == prog = "none" \/ pc = "exited"

\* node generate-tls-certs.js
StartTLS ==
  /\ Idle /\ run < MaxRuns
  /\ run' = run + 1
  /\ prog' = "tls"
  /\ pc' = "check"
  /\ cwd' = startDir
  /\ originalDir' = << >>
  /\ passphrase' = << >>
  /\ log' = << >>
  /\ exitCode' = -1
  /\ executed' = << >>
  /\ failedAt' = "none"
  /\ reads' = {}
  /\ UNCHANGED <<fs, dirs, startDir, env, sys, keyPair>>
  /\ UNCHANGED kidVars

\* the check for OpenSSL that precedes generateTLSCertificates()
CheckOpenSSL ==
  /\ prog = "tls" /\ pc = "check"
  /\ IF ~sys.usrBin /\ ~sys.usrLocalBin /\ ~sys.onPath
     THEN /\ log' = Append(log, LogLine(NOT_FOUND, "", NoCause))
          /\ exitCode' = 1
          /\ pc' = "exited"
     ELSE /\ pc' = TLSOrder[1]
          /\ UNCHANGED <<log, exitCode>>
  /\ UNCHANGED <<fs, dirs, run, prog, cwd, startDir, env, sys, originalDir,
                 passphrase, keyPair, executed, failedAt, reads>>
  /\ UNCHANGED kidVars

\* const originalDir = cwd(); mkdirSync(keyDirPath, { recursive: true })
MakeKeyDir ==
  /\ prog = "tls" /\ pc = "mkdir"
  /\ originalDir' = cwd
  /\ \E ok \in BOOLEAN :
       /\ dirs' = IF ok THEN dirs \cup Prefixes(keyDirPath) ELSE dirs
       /\ Finish("mkdir", ok, bareCall(ok), SysCallFailed("mkdir", "keyDirPath"), TLS_ERROR)
  /\ UNCHANGED <<fs, run, prog, cwd, startDir, env, sys, passphrase, keyPair, reads>>
  /\ UNCHANGED kidVars

\* fault variant: the working directory is left where it was
chdirTargetStay == cwd

\* the directory generateTLSCertificates changes into
chdirTarget == keyDirPath

\* chdir(keyDirPath)
EnterKeyDir ==
  /\ prog = "tls" /\ pc = "chdir"
  /\ \E ok \in BOOLEAN :
       /\ ok => chdirTarget \in dirs
       /\ cwd' = IF ok THEN chdirTarget ELSE cwd
       /\ Finish("chdir", ok, bareCall(ok), SysCallFailed("chdir", "keyDirPath"), TLS_ERROR)
  /\ UNCHANGED <<fs, dirs, run, prog, startDir, env, sys, originalDir, passphrase,
                 keyPair, reads>>
  /\ UNCHANGED kidVars

\* executeCommand(`openssl ...`, description) for one command step: on
\* failure openssl leaves its output files alone or leaves them unfinished
Command(step) ==
  /\ prog = "tls" /\ pc = step
  /\ \E ok, partial \in BOOLEAN :
       /\ ok => CanSucceed(step) /\ ~partial
       /\ partial => sys.onPath /\ \A n \in Inputs(step) : Exists(Here(n))
       /\ fs' = IF ok THEN WriteAll(cwd, Outputs(step))
                ELSE IF partial
                THEN WriteAll(cwd, [n \in DOMAIN Outputs(step) |->
                                     [Outputs(step)[n] EXCEPT !.complete = FALSE]])
                ELSE fs
       /\ reads' = IF ok
                   THEN reads \cup {[step |-> step, name |-> n,
                                     writer |-> fs[Here(n)].run] : n \in Inputs(step)}
                   ELSE reads
       /\ Finish(step, ok, executeCommand(ok, Description(step), CommandFailed(step)),
                 CommandFailed(step), TLS_ERROR)
  /\ UNCHANGED <<dirs, run, prog, cwd, startDir, env, sys, originalDir, passphrase,
                 keyPair>>
  /\ UNCHANGED kidVars

\* openssl genrsa -out tls-ca-key.pem 4096
GenerateCAKey == Command("cakey")

\* openssl req -x509 -new -key tls-ca-key.pem ... -out tls-ca-cert.pem
GenerateCACert == Command("cacert")

\* const passphrase = execSync(`openssl rand -base64 16`).toString().trim()
GeneratePassphrase ==
  /\ prog = "tls" /\ pc = "genpass"
  /\ \E ok \in BOOLEAN, out \in RandOutputs :
       /\ ok => sys.onPath
       /\ passphrase' = IF ok THEN Trim(out) ELSE passphrase
       /\ Finish("genpass", ok, bareCall(ok), CommandFailed("genpass"), TLS_ERROR)
  /\ UNCHANGED <<fs, dirs, run, prog, cwd, startDir, env, sys, originalDir, keyPair,
                 reads>>
  /\ UNCHANGED kidVars

\* writeFileSync(name, text) in the working directory: a failed write leaves
\* the file as it was or leaves it unfinished
WriteText(step, name, text) ==
  /\ prog = "tls" /\ pc = step
  /\ \E ok, partial \in BOOLEAN :
       /\ ok => ~partial /\ cwd \in dirs
       /\ partial => cwd \in dirs
       /\ fs' = IF ok \/ partial
                THEN WriteTo(fs, Here(name), File("text", [text |-> text], ok))
                ELSE fs
       /\ Finish(step, ok, bareCall(ok), SysCallFailed("open", name), TLS_ERROR)
  /\ UNCHANGED <<dirs, run, prog, cwd, startDir, env, sys, originalDir, passphrase,
                 keyPair, reads>>
  /\ UNCHANGED kidVars

\* writeFileSync('tls-shared-key-passphrase.txt', passphrase)
WritePassphrase == WriteText("writepass", PASS_FILE, passphrase)

\* openssl genrsa -aes256 -passout pass:${passphrase} -out tls-shared-key.pem 2048
GenerateServiceKey == Command("svckey")

\* writeFileSync('openssl.cnf', generateOpenSSLConfig())
WriteConfig == WriteText("writecnf", CNF, generateOpenSSLConfig)

\* openssl req -new -key tls-shared-key.pem -out tls-shared.csr ... -config openssl.cnf
CreateCSR == Command("csr")

\* openssl x509 -req -in tls-shared.csr -CA ... -extfile openssl.cnf -extensions v3_req
SignCertificate == Command("sign")

\* chdir(originalDir), the last statement of the try block
RestoreDir ==
  /\ prog = "tls" /\ pc = "restore"
  /\ \E ok \in BOOLEAN :
       /\ ok => originalDir \in dirs
       /\ cwd' = IF ok THEN originalDir ELSE cwd
       /\ Finish("restore", ok, bareCall(ok), SysCallFailed("chdir", "originalDir"), TLS_ERROR)
  /\ UNCHANGED <<fs, dirs, run, prog, startDir, env, sys, originalDir, passphrase,
                 keyPair, reads>>
  /\ UNCHANGED kidVars

TLSNext ==
  \/ StartTLS
  \/ CheckOpenSSL
  \/ MakeKeyDir
  \/ EnterKeyDir
  \/ GenerateCAKey
  \/ GenerateCACert
  \/ GeneratePassphrase
  \/ WritePassphrase
  \/ GenerateServiceKey
  \/ WriteConfig
  \/ CreateCSR
  \/ SignCertificate
  \/ RestoreDir

-----------------------------------------------------------------------------
(* generate-jwk.js *)

\* the key pairs generateKeyPair('ES256') may return
KeyPairs ==
  { [x |-> <<"x1">>, y |-> <<"y1">>, d |-> <<"d1">>],
    [x |-> <<"x2">>, y |-> <<"y2">>, d |-> <<"d2">>] }

NoKeyPair == [x |-> << >>, y |-> << >>, d |-> << >>]

publicKey == [half |-> "public", pair |-> keyPair]

privateKey == [half |-> "private", pair |-> keyPair]

\* jose exportJWK(key): the private half carries d, the public half does not
exportJWK(key) ==
  IF key.half = "private"
  THEN [kty |-> <<"EC">>, crv |-> <<"P-256">>, x |-> key.pair.x, y |-> key.pair.y,
        d |-> key.pair.d]
  ELSE [kty |-> <<"EC">>, crv |-> <<"P-256">>, x |-> key.pair.x, y |-> key.pair.y]

\* fault variant: the PEM is exported from another key pair
exportPKCS8Other(key) == [key |-> CHOOSE kp \in KeyPairs : kp # key.pair]

\* jose exportPKCS8(privateKey)
exportPKCS8(key) == [key |-> key.pair]

\* createHash('sha256').update(input).digest(): taken as collision-free
Sha256(input) == <<"sha256">> \o input

\* .digest('base64url'): an injective encoding of the digest
Base64Url(digest) == <<"base64url">> \o digest

\* fault variant: the y coordinate is left out of the hashed input
generateKidNoY(jwk) ==
  Base64Url(Sha256(jwk.kty \o <<"-">> \o jwk.crv \o <<"-">> \o jwk.x))

\* generateKid(jwk)
generateKid(jwk) ==
  Base64Url(Sha256(jwk.kty \o <<"-">> \o jwk.crv \o <<"-">> \o jwk.x \o <<"-">> \o jwk.y))

\* jwk.kid = kid; jwk.alg = ALGORITHM; jwk.use = KEY_USE
WithMetadata(jwk, kid) == [kid |-> kid, alg |-> ALGORITHM, use |-> KEY_USE] @@ jwk

publicJwk == WithMetadata(exportJWK(publicKey), generateKid(exportJWK(publicKey)))

privateJwk == WithMetadata(exportJWK(privateKey), generateKid(exportJWK(publicKey)))

\* fault variant: the private JWK is put into the key set
JwksDocumentPrivate == [keys |-> <<privateJwk>>]

\* the object serialised into jwks.json: { keys: [publicJwk] }
JwksDocument == [keys |-> <<publicJwk>>]

JWKOrder == <<"jmkdir", "genkey", "export", "writejwks", "writepem">>

JWK_ERROR == "Error generating JWK key pair"

\* how a statement of generateJWKKeyPair's try block ends
FinishJWK(step, ok, cause) ==
  /\ executed' = Append(executed, step)
  /\ failedAt' = IF ok THEN failedAt ELSE step
  /\ IF ~ok
     THEN /\ log' = Append(log, LogLine(JWK_ERROR, "", cause))
          /\ exitCode' = 1
          /\ pc' = "exited"
     ELSE /\ log' = log
          /\ exitCode' = IF step = JWKOrder[Len(JWKOrder)] THEN 0 ELSE exitCode
          /\ pc' = IF step = JWKOrder[Len(JWKOrder)] THEN "exited"
                   ELSE JWKOrder[(CHOOSE i \in 1..Len(JWKOrder) : JWKOrder[i] = step) + 1]

\* node generate-jwk.js
StartJWK ==
  /\ Idle /\ run < MaxRuns
  /\ run' = run + 1
  /\ prog' = "jwk"
  /\ pc' = JWKOrder[1]
  /\ cwd' = startDir
  /\ originalDir' = << >>
  /\ passphrase' = << >>
  /\ keyPair' = NoKeyPair
  /\ log' = << >>
  /\ exitCode' = -1
  /\ executed' = << >>
  /\ failedAt' = "none"
  /\ reads' = {}
  /\ UNCHANGED <<fs, dirs, startDir, env, sys>>
  /\ UNCHANGED kidVars

\* await mkdir(KEYS_DIR, { recursive: true })
MakeKeysDir ==
  /\ prog = "jwk" /\ pc = "jmkdir"
  /\ \E ok \in BOOLEAN :
       /\ dirs' = IF ok THEN dirs \cup Prefixes(KEYS_DIR) ELSE dirs
       /\ FinishJWK("jmkdir", ok, SysCallFailed("mkdir", "KEYS_DIR"))
  /\ UNCHANGED <<fs, run, prog, cwd, startDir, env, sys, originalDir, passphrase,
                 keyPair, reads>>
  /\ UNCHANGED kidVars

\* const { publicKey, privateKey } = await generateKeyPair(ALGORITHM, ...)
GenerateKeyPair ==
  /\ prog = "jwk" /\ pc = "genkey"
  /\ \E ok \in BOOLEAN, kp \in KeyPairs :
       /\ keyPair' = IF ok THEN kp ELSE keyPair
       /\ FinishJWK("genkey", ok, SysCallFailed("generateKeyPair", ALGORITHM))
  /\ UNCHANGED <<fs, dirs, run, prog, cwd, startDir, env, sys, originalDir,
                 passphrase, reads>>
  /\ UNCHANGED kidVars

\* exportJWK(publicKey), exportJWK(privateKey), exportPKCS8(privateKey) and the
\* kid / alg / use assignments
ExportKeys ==
  /\ prog = "jwk" /\ pc = "export"
  /\ \E ok \in BOOLEAN : FinishJWK("export", ok, SysCallFailed("export", "key"))
  /\ UNCHANGED <<fs, dirs, run, prog, cwd, startDir, env, sys, originalDir,
                 passphrase, keyPair, reads>>
  /\ UNCHANGED kidVars

\* await writeFile(path, content, 'utf8'): a failed write leaves the file as it
\* was or leaves it unfinished
WriteJWKFile(step, path, content) ==
  /\ prog = "jwk" /\ pc = step
  /\ \E ok, partial \in BOOLEAN :
       /\ ok => ~partial /\ path.dir \in dirs
       /\ partial => path.dir \in dirs
       /\ fs' = IF ok \/ partial
                THEN WriteTo(fs, path, [content EXCEPT !.complete = ok])
                ELSE fs
       /\ FinishJWK(step, ok, SysCallFailed("open", path.name))
  /\ UNCHANGED <<dirs, run, prog, cwd, startDir, env, sys, originalDir, passphrase,
                 keyPair, reads>>
  /\ UNCHANGED kidVars

\* await writeFile(JWKS_PATH, JSON.stringify({ keys: [publicJwk] }, null, 2), 'utf8')
WriteJwks == WriteJWKFile("writejwks", JWKS_PATH, File("jwks", JwksDocument, TRUE))

\* await writeFile(PRIVATE_KEY_PATH, privatePem, 'utf8')
WritePrivateKey ==
  WriteJWKFile("writepem", PRIVATE_KEY_PATH, File("pkcs8", exportPKCS8(privateKey), TRUE))

JWKNext ==
  \/ StartJWK
  \/ MakeKeysDir
  \/ GenerateKeyPair
  \/ ExportKeys
  \/ WriteJwks
  \/ WritePrivateKey

-----------------------------------------------------------------------------
(* generateKid on its own: two JWKs that differ in at most one component *)

Alphabet == {"a", "-"}

RECURSIVE StringsOfLen(_)
StringsOfLen(n) ==
  IF n = 0 THEN {<< >>}
  ELSE {Append(t, c) : t \in StringsOfLen(n - 1), c \in Alphabet}

\* the strings of at most MaxLen characters
Strings == UNION {StringsOfLen(n) : n \in 0..MaxLen}

KidInputs == [kty : Strings, crv : Strings, x : Strings, y : Strings]

NoKid == [kty |-> << >>, crv |-> << >>, x |-> << >>, y |-> << >>]

KidInit ==
  /\ fs = << >>
  /\ startDir = ScriptDir
  /\ dirs = Prefixes(ScriptDir)
  /\ run = 0
  /\ prog = "none"
  /\ pc = "exited"
  /\ cwd = startDir
  /\ env = MkEnv(UnsetDir, Unset, Unset, Unset)
  /\ sys = [usrBin |-> TRUE, usrLocalBin |-> FALSE, onPath |-> TRUE]
  /\ originalDir = << >>
  /\ passphrase = << >>
  /\ keyPair = NoKeyPair
  /\ log = << >>
  /\ exitCode = -1
  /\ executed = << >>
  /\ failedAt = "none"
  /\ reads = {}
  /\ k1 \in KidInputs
  /\ k2 = k1
  /\ kid1 = << >> /\ kid2 = << >>
  /\ kpc = "same"

\* the second JWK is given another value in one component
AlterComponent ==
  /\ kpc = "same"
  /\ \E f \in {"kty", "crv", "x", "y"}, v \in Strings :
       /\ v # k1[f]
       /\ k2' = [k1 EXCEPT ![f] = v]
  /\ kpc' = "altered"
  /\ UNCHANGED <<k1, kid1, kid2>>
  /\ UNCHANGED procVars

\* generateKid is applied to both JWKs
ComputeKids ==
  /\ kpc \in {"same", "altered"}
  /\ kid1' = generateKid(k1)
  /\ kid2' = generateKid(k2)
  /\ kpc' = IF kpc = "same" THEN "done-same" ELSE "done-altered"
  /\ UNCHANGED <<k1, k2>>
  /\ UNCHANGED procVars

KidNext == AlterComponent \/ ComputeKids

SpecKid == KidInit /\ [][KidNext]_vars

-----------------------------------------------------------------------------
Init ==
  /\ fs = << >>
  /\ startDir \in StartDirs
  /\ dirs = Prefixes(ScriptDir) \cup Prefixes(startDir)
  /\ run = 0
  /\ prog = "none"
  /\ pc = "exited"
  /\ cwd = startDir
  /\ env \in EnvChoices
  /\ sys \in SysChoices
  /\ originalDir = << >>
  /\ passphrase = << >>
  /\ keyPair = NoKeyPair
  /\ log = << >>
  /\ exitCode = -1
  /\ executed = << >>
  /\ failedAt = "none"
  /\ reads = {}
  /\ k1 = NoKid /\ k2 = NoKid /\ kid1 = << >> /\ kid2 = << >> /\ kpc = "off"

Next == TLSNext \/ JWKNext

Spec == Init /\ [][Next]_vars

-----------------------------------------------------------------------------
(* Properties *)

Range(seq) == {seq[i] : i \in 1..Len(seq)}

Last(seq) == seq[Len(seq)]

\* the steps of TLS provisioning
ProvisioningSteps ==
  {"mkdir", "cakey", "cacert", "genpass", "writepass", "svckey", "writecnf", "csr", "sign"}

\* C1: in TLS provisioning a failed step is the last step executed (nothing
\* runs after it), no step is executed twice, a failure ends the process with
\* exit code 1, and exit code 0 means every step was executed and none failed
C1_FailStop ==
  prog = "tls" =>
    /\ failedAt # "none" =>
          /\ pc = "exited" /\ exitCode = 1
          /\ Last(executed) = failedAt
    /\ \A i, j \in 1..Len(executed) : i # j => executed[i] # executed[j]
    /\ exitCode = 0 => failedAt = "none" /\ ProvisioningSteps \subseteq Range(executed)
    /\ pc = "exited" /\ run > 0 => exitCode \in {0, 1}

C1_Witness ==
  /\ prog = "tls" /\ failedAt = "csr" /\ exitCode = 1
  /\ executed = <<"mkdir", "chdir", "cakey", "cacert", "genpass", "writepass", "svckey",
                  "writecnf", "csr">>

\* C2: whichever step of TLS provisioning fails, the log holds a diagnostic
\* that carries the description of that step together with the cause
C2_StepNamed ==
  prog = "tls" /\ failedAt # "none" =>
    \E i \in 1..Len(log) :
      /\ log[i].description # ""
      /\ log[i].description = Description(failedAt)
      /\ log[i].cause.type # ""

\* C3: when openssl is not resolvable on the execution path, no step of the
\* TLS process takes effect (no directory created, no file written) and no
\* openssl command is run, and when the process has exited it has done so
\* with code 1 and the one line 'OpenSSL not found'
C3_NotFoundBeforeGeneration ==
  prog = "tls" /\ ~sys.onPath =>
    /\ Range(executed) \subseteq {"mkdir"} \cap {failedAt}
    /\ pc = "exited" => exitCode = 1 /\ log = <<LogLine(NOT_FOUND, "", NoCause)>>

\* C4: when the TLS process has exited, on success or on failure, its
\* working directory is the one it was launched in
C4_CwdRestored == prog = "tls" /\ pc = "exited" => cwd = startDir

\* C5: every jwks.json on disk has no key entry with a d component, carries
\* the public coordinates of a generated key pair and, once written in full,
\* has exactly one entry; every tls-shared-key.pem on disk is AES-256
\* encrypted under a non-empty passphrase
C5_NoPrivateMaterial ==
  \A p \in DOMAIN fs :
    /\ p.name = JWKS_NAME =>
          /\ fs[p].kind = "jwks"
          /\ fs[p].complete => Len(fs[p].data.keys) = 1
          /\ \A i \in 1..Len(fs[p].data.keys) :
                /\ "d" \notin DOMAIN fs[p].data.keys[i]
                /\ \E kp \in KeyPairs : /\ fs[p].data.keys[i].x = kp.x
                                        /\ fs[p].data.keys[i].y = kp.y
    /\ p.name = SVC_KEY =>
          /\ fs[p].kind = "rsakey"
          /\ fs[p].data.enc = "aes256"
          /\ fs[p].data.pass # << >>

C5_Witness ==
  /\ Complete(JWKS_PATH)
  /\ \E p \in DOMAIN fs : p.name = SVC_KEY /\ fs[p].complete

\* the directory KEY_DIR names: 'keys' beside the script when KEY_DIR is unset
\* or empty, else KEY_DIR itself, taken relative to the script directory
NamedKeyDir ==
  IF ~env.KEY_DIR.set \/ (~env.KEY_DIR.abs /\ env.KEY_DIR.val = << >>)
  THEN ScriptDir \o <<"keys">>
  ELSE IF env.KEY_DIR.abs THEN env.KEY_DIR.val ELSE ScriptDir \o env.KEY_DIR.val

SevenTLSFiles == {CA_KEY, CA_CERT, PASS_FILE, SVC_KEY, CNF, CSR, SVC_CERT}

\* C6 as claimed: every file of both provisioners is in the directory KEY_DIR
\* names, and a successful run leaves all of its files there
C6_AllInKeyDir ==
  /\ \A p \in DOMAIN fs : p.dir = NamedKeyDir
  /\ prog = "tls" /\ exitCode = 0 =>
        \A n \in SevenTLSFiles : Complete(Path(NamedKeyDir, n))
  /\ prog = "jwk" /\ exitCode = 0 =>
        \A n \in {JWKS_NAME, PRIVATE_KEY_NAME} : Complete(Path(NamedKeyDir, n))

\* C6 amended: the TLS files are in the directory KEY_DIR names; jwks.json and
\* jwks-private-key.pem are in the fixed directory 'keys' beside the script
\* whatever KEY_DIR is; a successful run leaves all of its files in place
C6_ArtifactDirs ==
  /\ \A p \in DOMAIN fs :
        IF p.name \in {JWKS_NAME, PRIVATE_KEY_NAME}
        THEN p.dir = ScriptDir \o <<"keys">>
        ELSE p.dir = NamedKeyDir
  /\ prog = "tls" /\ exitCode = 0 =>
        \A n \in SevenTLSFiles : Complete(Path(NamedKeyDir, n))
  /\ prog = "jwk" /\ exitCode = 0 =>
        \A n \in {JWKS_NAME, PRIVATE_KEY_NAME} : Complete(Path(ScriptDir \o <<"keys">>, n))

C6_Witness ==
  /\ prog = "tls" /\ exitCode = 0
  /\ NamedKeyDir = ScriptDir \o <<"out">>
  /\ startDir # ScriptDir
  /\ Complete(Path(ScriptDir \o <<"keys">>, JWKS_NAME))
  /\ Complete(Path(ScriptDir \o <<"keys">>, PRIVATE_KEY_NAME))
  /\ \A n \in SevenTLSFiles : Complete(Path(NamedKeyDir, n))

\* the three subject-alternative-name entries of the configured values
ExpectedAltNames ==
  << <<"DNS.1 = ">> \o CN, <<"DNS.2 = ">> \o SAN_DNS, <<"IP.1 = ">> \o SAN_IP >>

\* C7 as claimed: for any configured values, every fully written openssl.cnf
\* has exactly the three entries CN, SAN_DNS, SAN_IP in that order, and every
\* signed service certificate carries that same list
C7_ThreeEntries ==
  \A p \in DOMAIN fs :
    /\ p.name = CNF /\ fs[p].complete => AltNames(fs[p].data.text) = ExpectedAltNames
    /\ p.name = SVC_CERT /\ fs[p].complete => fs[p].data.san = ExpectedAltNames

SingleLine(t) == NL \notin Range(t)

\* C7 amended: the same, for configured values that contain no line break
C7_ThreeEntriesSingleLine ==
  SingleLine(CN) /\ SingleLine(SAN_DNS) /\ SingleLine(SAN_IP) => C7_ThreeEntries

C7_Witness ==
  /\ prog = "tls" /\ exitCode = 0
  /\ CN = <<"svc.internal">> /\ SAN_DNS = <<"svc.local">> /\ SAN_IP = <<"10.0.0.5">>
  /\ Complete(Path(NamedKeyDir, SVC_CERT))
  /\ fs[Path(NamedKeyDir, SVC_CERT)].data.san =
       << <<"DNS.1 = ", "svc.internal">>, <<"DNS.2 = ", "svc.local">>,
          <<"IP.1 = ", "10.0.0.5">> >>

\* C8: two JWKs that are identical, or differ in exactly one of kty, crv, x
\* and y, get the same kid exactly when they are identical
C8_KidSensitive ==
  kpc \in {"done-same", "done-altered"} => (kid1 = kid2 <=> k1 = k2)

C8_Witness ==
  /\ kpc = "done-altered"
  /\ k1.x = <<"-">> /\ k2.x = << >> /\ k1.y = << >>
  /\ kid1 # kid2

\* C9: the steps of a TLS run are executed in the one order of the source;
\* once the service key step or the CSR step has run, the passphrase file of
\* this run is on disk holding the passphrase in use; and every file an
\* openssl command read was written by a step of the same run
C9_StrictOrder ==
  prog = "tls" =>
    /\ \A i \in 1..Len(executed) :
          executed[i] = <<"mkdir", "chdir", "cakey", "cacert", "genpass", "writepass",
                          "svckey", "writecnf", "csr", "sign", "restore">>[i]
    /\ Range(executed) \cap {"svckey", "csr"} # {} =>
          /\ passphrase # << >>
          /\ Complete(Path(NamedKeyDir, PASS_FILE))
          /\ fs[Path(NamedKeyDir, PASS_FILE)].run = run
          /\ fs[Path(NamedKeyDir, PASS_FILE)].data.text = passphrase
    /\ \A r \in reads : r.writer = run

C9_Witness ==
  /\ prog = "tls" /\ exitCode = 0 /\ run = 2
  /\ {r.step : r \in reads} = {"cacert", "csr", "sign"}
  /\ fs[Path(NamedKeyDir, CA_SERIAL)].run = 2

\* jwks.json carries the public coordinates of the key in jwks-private-key.pem
SamePair ==
  /\ Len(fs[JWKS_PATH].data.keys) = 1
  /\ fs[JWKS_PATH].data.keys[1].x = fs[PRIVATE_KEY_PATH].data.key.x
  /\ fs[JWKS_PATH].data.keys[1].y = fs[PRIVATE_KEY_PATH].data.key.y

\* C10 as claimed: between runs, whenever jwks.json and jwks-private-key.pem
\* are both on disk (written in full) they hold the two halves of one key pair
C10_SamePairAlways ==
  Idle /\ Complete(JWKS_PATH) /\ Complete(PRIVATE_KEY_PATH) => SamePair

\* C10 amended: when a JWK run has exited with code 0, both files exist,
\* written in full by that run, and hold the halves of the pair it generated
C10_SamePairAfterSuccess ==
  prog = "jwk" /\ exitCode = 0 =>
    /\ Complete(JWKS_PATH) /\ Complete(PRIVATE_KEY_PATH)
    /\ SamePair
    /\ fs[JWKS_PATH].run = run /\ fs[PRIVATE_KEY_PATH].run = run
    /\ fs[PRIVATE_KEY_PATH].data.key = keyPair

C10_Witness ==
  /\ prog = "jwk" /\ exitCode = 0 /\ run = 2
  /\ executed = <<"jmkdir", "genkey", "export", "writejwks", "writepem">>

====
